---- MODULE Spec2Model ----
(***************************************************************************)
(* The document search engine of backend/main.go: tokenize, normalizeWord, *)
(* levenshteinDistance, SearchEngine.BuildIndex / indexField / Search and  *)
(* the scoring helpers.                                                    *)
(*                                                                         *)
(* A text is a sequence of characters, each a string: an ASCII character   *)
(* is written as itself, any other as its code point ("U+00E9").  A Go     *)
(* string is the UTF-8 encoding of a text (Bytes); len and indexing of a   *)
(* Go string count bytes.                                                  *)
(* A float64 relevance value is held as an integer count of 1e-7 units:    *)
(* natural logarithms in 1e-6 units (LnMicro) times field weights in       *)
(* tenths (getFieldWeight).                                                *)
(***************************************************************************)
EXTENDS Integers, Sequences, FiniteSets, TLC

VARIABLES db, se, query, limit, result, call, ret, build

vars == <<db, se, query, limit, result, call, ret, build>>

----------------------------------------------------------------------------
(* Characters                                                              *)

LowerLetters == {"a","b","c","d","e","f","g","h","i","j","k","l","m",
                 "n","o","p","q","r","s","t","u","v","w","x","y","z"}

UpperLetters == {"A","B","C","D","E","F","G","H","I","J","K","L","M",
                 "N","O","P","Q","R","S","T","U","V","W","X","Y","Z"}

Digits == {"0","1","2","3","4","5","6","7","8","9"}

LowerOf ==
    [c \in UpperLetters |->
        CASE c = "A" -> "a" [] c = "B" -> "b" [] c = "C" -> "c" [] c = "D" -> "d"
          [] c = "E" -> "e" [] c = "F" -> "f" [] c = "G" -> "g" [] c = "H" -> "h"
          [] c = "I" -> "i" [] c = "J" -> "j" [] c = "K" -> "k" [] c = "L" -> "l"
          [] c = "M" -> "m" [] c = "N" -> "n" [] c = "O" -> "o" [] c = "P" -> "p"
          [] c = "Q" -> "q" [] c = "R" -> "r" [] c = "S" -> "s" [] c = "T" -> "t"
          [] c = "U" -> "u" [] c = "V" -> "v" [] c = "W" -> "w" [] c = "X" -> "x"
          [] c = "Y" -> "y" [] c = "Z" -> "z"]

\* lower-case letters outside ASCII: e with acute and e with grave accent
Accented == {"U+00E9", "U+00E8"}

\* the UTF-8 encoding of one character
UTF8(c) ==
    CASE c = "U+00E9" -> <<"0xC3", "0xA9">>
      [] c = "U+00E8" -> <<"0xC3", "0xA8">>
      [] OTHER -> <<c>>

\* a Go string: the bytes of a text
RECURSIVE Bytes(_)
Bytes(text) ==
    IF text = << >> THEN << >> ELSE UTF8(Head(text)) \o Bytes(Tail(text))

\* the builtin len of a Go string: its number of bytes
len(text) == Len(Bytes(text))

\* strings.ToLower on one character
ToLower(c) == IF c \in UpperLetters THEN LowerOf[c] ELSE c

\* the characters the regexp [^\p{L}\p{N}]+ leaves in place
IsLetterOrDigit(c) ==
    c \in LowerLetters \/ c \in UpperLetters \/ c \in Digits \/ c \in Accented

----------------------------------------------------------------------------
(* Text processing utilities                                               *)

stopWords ==
    { <<"t","h","e">>, <<"a">>, <<"a","n">>, <<"a","n","d">>, <<"o","r">>,
      <<"b","u","t">>, <<"i","n">>, <<"o","n">>, <<"a","t">>, <<"t","o">>,
      <<"f","o","r">>, <<"o","f">>, <<"w","i","t","h">>, <<"b","y">>, <<"i","s">>,
      <<"a","r","e">>, <<"w","a","s">>, <<"w","e","r","e">>, <<"b","e">>,
      <<"b","e","e","n">>, <<"h","a","v","e">>, <<"h","a","s">>, <<"h","a","d">>,
      <<"d","o">>, <<"d","o","e","s">>, <<"d","i","d">>, <<"w","i","l","l">>,
      <<"w","o","u","l","d">>, <<"c","o","u","l","d">>,
      <<"s","h","o","u","l","d">> }

SetMin(S) == CHOOSE x \in S : \A y \in S : x <= y

\* Op(v) with v evaluated first: a loop of the code becomes a recursive
\* operator whose accumulator is a value at every turn, not an expression
\* that grows with the number of turns
Apply(Op(_), v) == CHOOSE out \in {Op(x) : x \in {v}} : TRUE

\* reg.ReplaceAllString(text, " "), strings.ToLower, strings.Fields: the
\* maximal runs of letters and digits, lowercased, in order of their start
Fields(text) ==
    LET starts == {i \in 1..Len(text) :
                      /\ IsLetterOrDigit(text[i])
                      /\ i = 1 \/ ~IsLetterOrDigit(text[i - 1])}
        start(k) == CHOOSE i \in starts :
                        Cardinality({j \in starts : j < i}) = k - 1
        end(i) == SetMin({j \in i..Len(text) :
                             j = Len(text) \/ ~IsLetterOrDigit(text[j + 1])})
    IN  [k \in 1..Cardinality(starts) |->
            [c \in 1..(end(start(k)) - start(k) + 1) |->
                ToLower(text[start(k) + c - 1])]]

tokenize(text) ==
    SelectSeq(Fields(text), LAMBDA word : word \notin stopWords /\ len(word) > 1)

\* suffixes with the longer endings before "ion"
suffixesLongestFirst ==
    << <<"i","n","g">>, <<"e","d">>, <<"e","r">>, <<"e","s","t">>, <<"l","y">>,
       <<"t","i","o","n">>, <<"s","i","o","n">>, <<"i","o","n">>,
       <<"n","e","s","s">>, <<"m","e","n","t">> >>

suffixes ==
    << <<"i","n","g">>, <<"e","d">>, <<"e","r">>, <<"e","s","t">>, <<"l","y">>,
       <<"i","o","n">>, <<"t","i","o","n">>, <<"s","i","o","n">>,
       <<"n","e","s","s">>, <<"m","e","n","t">> >>

HasSuffix(word, suffix) ==
    /\ Len(word) >= Len(suffix)
    /\ SubSeq(word, Len(word) - Len(suffix) + 1, Len(word)) = suffix

\* StripFrom with >= len(suffix)+2 for > len(suffix)+2
RECURSIVE StripFromShort(_, _)
StripFromShort(word, k) ==
    IF k > Len(suffixes) THEN word
    ELSE IF HasSuffix(word, suffixes[k]) /\ len(word) >= len(suffixes[k]) + 2
         THEN SubSeq(word, 1, Len(word) - Len(suffixes[k]))
         ELSE StripFromShort(word, k + 1)

\* the loop of normalizeWord from suffix k on: the first suffix that matches
\* and leaves a long enough stem is stripped, then break
RECURSIVE StripFrom(_, _)
StripFrom(word, k) ==
    IF k > Len(suffixes) THEN word
    ELSE IF HasSuffix(word, suffixes[k]) /\ len(word) > len(suffixes[k]) + 2
         THEN SubSeq(word, 1, Len(word) - Len(suffixes[k]))
         ELSE StripFrom(word, k + 1)

normalizeWord(word) == StripFrom([i \in 1..Len(word) |-> ToLower(word[i])], 1)

min(a, b, c) ==
    IF a < b /\ a < c THEN a
    ELSE IF b < c THEN b
    ELSE c

minInt(a, b) == IF a < b THEN a ELSE b

\* LevCells with a deletion that costs 2
RECURSIVE LevCellsCostlyDeletion(_, _, _, _, _)
LevCellsCostlyDeletion(s1, s2, i, prev, row) ==
    LET j == Len(row) IN
    IF j > Len(s2) THEN row
    ELSE LET cost == IF s1[i] # s2[j] THEN 1 ELSE 0 IN
         LevCellsCostlyDeletion(s1, s2, i, prev,
                  Append(row, min(prev[j + 1] + 2, row[j] + 1, prev[j] + cost)))

\* row holds matrix[i][0..j-1]; prev is matrix[i-1]
RECURSIVE LevCells(_, _, _, _, _)
LevCells(s1, s2, i, prev, row) ==
    LET j == Len(row) IN
    IF j > Len(s2) THEN row
    ELSE LET cost == IF s1[i] # s2[j] THEN 1 ELSE 0 IN
         LevCells(s1, s2, i, prev,
                  Append(row, min(prev[j + 1] + 1, row[j] + 1, prev[j] + cost)))

RECURSIVE LevRows(_, _, _, _)
LevRows(s1, s2, i, prev) ==
    IF i > Len(s1) THEN prev
    ELSE Apply(LAMBDA row : LevRows(s1, s2, i + 1, row),
               LevCells(s1, s2, i, prev, <<i>>))

\* s1[i-1] and s2[j-1] of the code are bytes: the matrix is over the bytes
\* of the two strings
levenshteinDistance(s1, s2) ==
    LET b1 == Bytes(s1)
        b2 == Bytes(s2)
    IN  IF Len(b1) = 0 THEN Len(b2)
        ELSE IF Len(b2) = 0 THEN Len(b1)
        ELSE LevRows(b1, b2, 1, [j \in 1..(Len(b2) + 1) |-> j - 1])[Len(b2) + 1]

----------------------------------------------------------------------------
(* Search engine structures                                                *)

\* DocumentIndex{DocumentID, Field, Frequency, Positions}
DocumentIndex(docID, field, frequency, positions) ==
    [DocumentID |-> docID, Field |-> field,
     Frequency |-> frequency, Positions |-> positions]

\* make(map[string][]DocumentIndex): the map with no key
EmptyIndex == << >>

\* se.Index[word] of a Go map: the nil slice for a missing key, no insertion
findMatches(eng, word) ==
    IF word \in DOMAIN eng.Index THEN eng.Index[word] ELSE << >>

\* AddOccurrence without the search for an existing entry
AddOccurrenceAppend(index, word, docID, field, pos) ==
    LET list == IF word \in DOMAIN index THEN index[word] ELSE << >> IN
    [w \in DOMAIN index \cup {word} |->
        IF w = word
        THEN Append(list, DocumentIndex(docID, field, 1, <<pos>>))
        ELSE index[w]]

\* one turn of the loop of indexField, after normalizeWord: the first entry
\* with this document and field gets Frequency++ and the position; if there
\* is none a new entry is appended to the word's list
AddOccurrence(index, word, docID, field, pos) ==
    LET list == IF word \in DOMAIN index THEN index[word] ELSE << >>
        hits == {i \in 1..Len(list) :
                    list[i].DocumentID = docID /\ list[i].Field = field}
    IN  IF hits # {}
        THEN LET i == SetMin(hits) IN
             [index EXCEPT ![word][i] =
                 [@ EXCEPT !.Frequency = @ + 1, !.Positions = Append(@, pos)]]
        ELSE [w \in DOMAIN index \cup {word} |->
                 IF w = word
                 THEN Append(list, DocumentIndex(docID, field, 1, <<pos>>))
                 ELSE index[w]]

\* IndexWords with positions counted from 1
RECURSIVE IndexWordsOneBased(_, _, _, _, _)
IndexWordsOneBased(index, docID, field, words, k) ==
    IF k > Len(words) THEN index
    ELSE IF len(words[k]) < 2
         THEN IndexWordsOneBased(index, docID, field, words, k + 1)
         ELSE Apply(LAMBDA next : IndexWordsOneBased(next, docID, field, words,
                                                     k + 1),
                    AddOccurrence(index, normalizeWord(words[k]),
                                  docID, field, k))

\* IndexWords without normalizeWord
RECURSIVE IndexWordsRaw(_, _, _, _, _)
IndexWordsRaw(index, docID, field, words, k) ==
    IF k > Len(words) THEN index
    ELSE IF len(words[k]) < 2
         THEN IndexWordsRaw(index, docID, field, words, k + 1)
         ELSE Apply(LAMBDA next : IndexWordsRaw(next, docID, field, words, k + 1),
                    AddOccurrence(index, words[k], docID, field, k - 1))

RECURSIVE IndexWords(_, _, _, _, _)
IndexWords(index, docID, field, words, k) ==
    IF k > Len(words) THEN index
    ELSE IF len(words[k]) < 2
         THEN IndexWords(index, docID, field, words, k + 1)
         ELSE Apply(LAMBDA next : IndexWords(next, docID, field, words, k + 1),
                    AddOccurrence(index, normalizeWord(words[k]),
                                  docID, field, k - 1))

\* indexField; its weight parameter is never read by the code
indexField(index, docID, field, text) ==
    IndexWords(index, docID, field, tokenize(text), 1)

\* strings.Join(doc.TagsArray, " ")
RECURSIVE Join(_, _)
Join(elems, k) ==
    IF k > Len(elems) THEN << >>
    ELSE IF k = Len(elems) THEN elems[k]
    ELSE elems[k] \o <<" ">> \o Join(elems, k + 1)

\* the five indexField calls BuildIndex makes for one document
IndexDocument(index, doc) ==
    LET i1 == indexField(index, doc.ID, "name", doc.Name)
        i2 == indexField(i1, doc.ID, "description", doc.Description)
        i3 == indexField(i2, doc.ID, "content", doc.Content)
        i4 == indexField(i3, doc.ID, "category", doc.Category)
    IN  indexField(i4, doc.ID, "tags", Join(doc.TagsArray, 1))

\* IndexDocuments with the test of doc.IsActive inverted
RECURSIVE IndexDocumentsInactive(_, _, _)
IndexDocumentsInactive(index, docs, k) ==
    IF k > Len(docs) THEN index
    ELSE IF docs[k].IsActive
         THEN IndexDocumentsInactive(index, docs, k + 1)
         ELSE Apply(LAMBDA next : IndexDocumentsInactive(next, docs, k + 1),
                    IndexDocument(index, docs[k]))

\* IndexDocuments without the test of doc.IsActive
RECURSIVE IndexDocumentsAll(_, _, _)
IndexDocumentsAll(index, docs, k) ==
    IF k > Len(docs) THEN index
    ELSE Apply(LAMBDA next : IndexDocumentsAll(next, docs, k + 1),
               IndexDocument(index, docs[k]))

RECURSIVE IndexDocuments(_, _, _)
IndexDocuments(index, docs, k) ==
    IF k > Len(docs) THEN index
    ELSE IF ~docs[k].IsActive
         THEN IndexDocuments(index, docs, k + 1)
         ELSE Apply(LAMBDA next : IndexDocuments(next, docs, k + 1),
                    IndexDocument(index, docs[k]))

\* BuildIndex without the new map: the postings are added to the old ones
BuildIndexKeep(eng) ==
    [eng EXCEPT !.Index = IndexDocuments(eng.Index, eng.Documents, 1)]

\* SearchEngine.BuildIndex: the index is replaced by a new map filled from
\* the active documents of se.Documents
BuildIndex(eng) ==
    [eng EXCEPT !.Index = IndexDocuments(EmptyIndex, eng.Documents, 1)]

\* UpdateDocuments without the call of BuildIndex
UpdateDocumentsNoBuild(eng, docs) == [eng EXCEPT !.Documents = docs]

UpdateDocuments(eng, docs) == BuildIndex([eng EXCEPT !.Documents = docs])

\* NewSearchEngine without the call of BuildIndex
NewSearchEngineNoBuild(store) == [Documents |-> store, Index |-> EmptyIndex]

\* db.Find(&documents), then BuildIndex
NewSearchEngine(store) ==
    BuildIndex([Documents |-> store, Index |-> EmptyIndex])

----------------------------------------------------------------------------
(* Scoring                                                                 *)

\* math.Log(k) for k = 1..40, in 1e-6 units
LnMicro ==
    << 0, 693147, 1098612, 1386294, 1609438, 1791759, 1945910, 2079442,
       2197225, 2302585, 2397895, 2484907, 2564949, 2639057, 2708050, 2772589,
       2833213, 2890372, 2944439, 2995732, 3044522, 3091042, 3135494, 3178054,
       3218876, 3258097, 3295837, 3332205, 3367296, 3401197, 3433987, 3465736,
       3496508, 3526361, 3555348, 3583519, 3610918, 3637586, 3663562, 3688879 >>

RECURSIVE Gcd(_, _)
Gcd(a, b) == IF b = 0 THEN a ELSE Gcd(b, a % b)

\* math.Log(float64(a) / float64(b)) for a, b >= 1: equal quotients give the
\* same value, as they do in float64, and the quotient 1 gives exactly 0
Log(a, b) ==
    LET g == Gcd(a, b) IN LnMicro[a \div g] - LnMicro[b \div g]

calculateIDF(eng, word) ==
    LET totalDocs == Len(eng.Documents)
        docsWithWord == Len(findMatches(eng, word))
    IN  IF docsWithWord = 0 THEN 0 ELSE Log(totalDocs, docsWithWord)

\* getFieldWeight with the weight of "content" for "name"
getFieldWeightFlat(field) ==
    CASE field = "name" -> 10
      [] field = "description" -> 20
      [] field = "category" -> 25
      [] field = "tags" -> 20
      [] field = "content" -> 10
      [] OTHER -> 10

\* the weights of getFieldWeight, in tenths
getFieldWeight(field) ==
    CASE field = "name" -> 30
      [] field = "description" -> 20
      [] field = "category" -> 25
      [] field = "tags" -> 20
      [] field = "content" -> 10
      [] OTHER -> 10

\* the nil *PolicyFile
Nil == [nil |-> TRUE]

\* the first document of se.Documents with this id, or nil
getDocumentByID(eng, id) ==
    LET hits == {k \in 1..Len(eng.Documents) : eng.Documents[k].ID = id} IN
    IF hits = {} THEN Nil ELSE eng.Documents[SetMin(hits)]

----------------------------------------------------------------------------
(* Search                                                                  *)

\* the orders in which a range over a Go map may visit the keys in S
Orders(S) ==
    {f \in [1..Cardinality(S) -> S] :
        \A i, j \in 1..Cardinality(S) : i # j => f[i] # f[j]}

RECURSIVE Flatten(_, _, _)
Flatten(index, order, k) ==
    IF k > Len(order) THEN << >>
    ELSE index[order[k]] \o Flatten(index, order, k + 1)

\* findFuzzyMatches with the bound off by one
findFuzzyMatchesWide(eng, word, maxDistance) ==
    LET near == {indexWord \in DOMAIN eng.Index :
                    levenshteinDistance(word, indexWord) <= maxDistance + 1}
    IN  {Flatten(eng.Index, order, 1) : order \in Orders(near)}

\* findFuzzyMatches: the posting lists of every index word within
\* maxDistance, appended in map iteration order (one result per order)
findFuzzyMatches(eng, word, maxDistance) ==
    LET near == {indexWord \in DOMAIN eng.Index :
                    levenshteinDistance(word, indexWord) <= maxDistance}
    IN  {Flatten(eng.Index, order, 1) : order \in Orders(near)}

\* MatchesOf without the fuzzy fallback
MatchesOfExact(eng, queryWord) == {findMatches(eng, queryWord)}

\* MatchesOf with the fuzzy matches added to the exact ones
MatchesOfBoth(eng, queryWord) ==
    {findMatches(eng, queryWord) \o fuzzyMatches :
        fuzzyMatches \in findFuzzyMatches(eng, queryWord, 2)}

\* the matches of one query word: the exact postings, and the fuzzy ones
\* only when there is no exact posting
MatchesOf(eng, queryWord) ==
    LET matches == findMatches(eng, queryWord) IN
    IF Len(matches) = 0 THEN findFuzzyMatches(eng, queryWord, 2)
    ELSE {matches}

\* ScoreMatches with a score that leaves out the frequency
RECURSIVE ScoreMatchesNoTf(_, _, _, _, _)
ScoreMatchesNoTf(acc, matches, k, queryWord, idf) ==
    IF k > Len(matches) THEN acc
    ELSE LET match == matches[k]
             fieldWeight == getFieldWeight(match.Field)
             score == idf * fieldWeight
             id == match.DocumentID
             m == [Field |-> match.Field, Text |-> queryWord, Score |-> score]
             old == IF id \in DOMAIN acc THEN acc[id]
                    ELSE [Score |-> 0, Matches |-> << >>]
             new == [Score |-> old.Score + score,
                     Matches |-> Append(old.Matches, m)]
         IN  Apply(LAMBDA next : ScoreMatchesNoTf(next, matches, k + 1,
                                                      queryWord, idf),
                   [d \in DOMAIN acc \cup {id} |->
                       IF d = id THEN new ELSE acc[d]])

\* docScores[id] += score and docMatches[id] = append(docMatches[id], Match{})
\* for the matches from the k-th on; acc maps a document id to both
RECURSIVE ScoreMatches(_, _, _, _, _)
ScoreMatches(acc, matches, k, queryWord, idf) ==
    IF k > Len(matches) THEN acc
    ELSE LET match == matches[k]
             tf == match.Frequency
             fieldWeight == getFieldWeight(match.Field)
             score == tf * idf * fieldWeight
             id == match.DocumentID
             m == [Field |-> match.Field, Text |-> queryWord, Score |-> score]
             old == IF id \in DOMAIN acc THEN acc[id]
                    ELSE [Score |-> 0, Matches |-> << >>]
             new == [Score |-> old.Score + score,
                     Matches |-> Append(old.Matches, m)]
         IN  Apply(LAMBDA next : ScoreMatches(next, matches, k + 1,
                                                  queryWord, idf),
                   [d \in DOMAIN acc \cup {id} |->
                       IF d = id THEN new ELSE acc[d]])

\* the loop over queryWords from the k-th on: every (docScores, docMatches)
\* it can end with
RECURSIVE ScoreWords(_, _, _, _)
ScoreWords(eng, queryWords, k, acc) ==
    IF k > Len(queryWords) THEN {acc}
    ELSE LET queryWord == normalizeWord(queryWords[k])
             idf == calculateIDF(eng, queryWord)
         IN  UNION { ScoreWords(eng, queryWords, k + 1,
                                ScoreMatches(acc, matches, 1, queryWord, idf)) :
                     matches \in MatchesOf(eng, queryWord) }

\* Ranked with the comparison of sort.Slice turned around
RankedAscending(eng, acc) ==
    LET ids == {id \in DOMAIN acc : getDocumentByID(eng, id) # Nil} IN
    { [i \in 1..Cardinality(ids) |->
          [Document |-> getDocumentByID(eng, order[i]),
           Score |-> acc[order[i]].Score,
           Matches |-> acc[order[i]].Matches]] :
      order \in {o \in Orders(ids) :
                    \A i, j \in 1..Cardinality(ids) :
                        i < j => ~(acc[o[j]].Score < acc[o[i]].Score)} }

\* the results slice after the range over docScores and sort.Slice, which is
\* not stable: every order of the scored documents in which no result has a
\* greater Score than one before it
Ranked(eng, acc) ==
    LET ids == {id \in DOMAIN acc : getDocumentByID(eng, id) # Nil} IN
    { [i \in 1..Cardinality(ids) |->
          [Document |-> getDocumentByID(eng, order[i]),
           Score |-> acc[order[i]].Score,
           Matches |-> acc[order[i]].Matches]] :
      order \in {o \in Orders(ids) :
                    \A i, j \in 1..Cardinality(ids) :
                        i < j => ~(acc[o[j]].Score > acc[o[i]].Score)} }

\* what a call of Search ends with: the slice it returns, or the run-time
\* panic "slice bounds out of range"
Returns(results) == [panic |-> FALSE, results |-> results]

Panics == [panic |-> TRUE, results |-> << >>]

\* results[:limit] when len(results) > limit
ApplyLimit(results, lim) ==
    IF Len(results) > lim
    THEN IF lim < 0 THEN Panics ELSE Returns(SubSeq(results, 1, lim))
    ELSE Returns(results)

\* Search without the early return for a query of no words
SearchUnguarded(eng, q, lim) ==
    LET lim1 == IF lim = 0 THEN 10 ELSE lim
        queryWords == tokenize(q)
    IN  { ApplyLimit(results, lim1) :
          results \in UNION { Ranked(eng, acc) :
                              acc \in ScoreWords(eng, queryWords, 1, << >>) } }

\* SearchEngine.Search: the set of outcomes a call can have
Search(eng, q, lim) ==
    LET lim1 == IF lim = 0 THEN 10 ELSE lim
        queryWords == tokenize(q)
    IN  IF Len(queryWords) = 0 THEN { Returns(<< >>) }
        ELSE { ApplyLimit(results, lim1) :
               results \in UNION { Ranked(eng, acc) :
                                   acc \in ScoreWords(eng, queryWords, 1, << >>) } }

----------------------------------------------------------------------------
(* Documents, queries and limits of the model                              *)

\* the document table holds at most MaxDocs rows
MaxDocs == 2

SP == <<" ">>
Cat == <<"c","a","t">>
Cot == <<"c","o","t">>
Cow == <<"c","o","w">>
Dog == <<"d","o","g">>
Pets == <<"P","e","t","s">>
Password == <<"p","a","s","s","w","o","r","d">>
Passwrd == <<"p","a","s","s","w","r","d">>
Xyz123 == <<"x","y","z","1","2","3">>

PolicyFile(id, name, description, content, category, tags, type, active) ==
    [ID |-> id, Name |-> name, Description |-> description,
     Content |-> content, Category |-> category, TagsArray |-> tags,
     DocumentType |-> type, IsActive |-> active]

\* a document with a name and a content only
Plain(id, name, content, active) ==
    PolicyFile(id, name, << >>, content, << >>, << >>, "policy", active)

\* the corpus of the scenario: A, B and C, all active
DocA == Plain(1, <<"P","a","s","s","w","o","r","d"," ","P","o","l","i","c","y">>,
              <<"u","s","e"," ","s","t","r","o","n","g"," ",
                "p","a","s","s","w","o","r","d">>, TRUE)
DocB == Plain(2, <<"V","P","N"," ","G","u","i","d","e">>,
              <<"c","o","n","n","e","c","t"," ","v","p","n"," ",
                "p","a","s","s","w","o","r","d"," ","r","e","s","e","t">>, TRUE)
DocC == Plain(3, <<"I","n","c","i","d","e","n","t"," ",
                   "R","e","s","p","o","n","s","e">>,
              <<"r","e","p","o","r","t"," ","i","n","c","i","d","e","n","t">>, TRUE)

ScenarioCorpus == <<DocA, DocB, DocC>>

\* "cat" only in the name of document 2 and only in the content of document 1
PairCorpus == << Plain(1, Dog, Cat, TRUE), Plain(2, Cat, Dog, TRUE) >>

\* the pair, and a third document
TrioCorpus == PairCorpus \o << Plain(3, Cow, Cow, TRUE) >>

\* "cat" in three fields of one document, "dog" in one field of two; the
\* fourth document is inactive
FieldsCorpus ==
    << PolicyFile(1, Cat, Cat, Cat \o SP \o Cat, << >>, << >>, "policy", TRUE),
       Plain(2, Dog, << >>, TRUE),
       Plain(3, << >>, Dog, TRUE),
       Plain(4, Cow, Dog, FALSE) >>

\* "cot" occurs only in an inactive document
InactiveCorpus == << Plain(1, Cat, << >>, TRUE), Plain(2, Cot, Cot, FALSE) >>

\* raw words that stem to one term: "Testing tested" in the name, and
\* "test tester the test" in the content
StemCorpus ==
    << Plain(1, <<"T","e","s","t","i","n","g"," ","t","e","s","t","e","d">>,
             <<"t","e","s","t"," ","t","e","s","t","e","r"," ","t","h","e"," ",
               "t","e","s","t">>, TRUE) >>

\* the snapshots a caller hands to UpdateDocuments
Snapshots ==
    {ScenarioCorpus, PairCorpus, TrioCorpus, FieldsCorpus, InactiveCorpus,
     StemCorpus}

\* the bodies of the create requests
CreateRequests ==
    { [Name |-> Cat, Content |-> Cat \o SP \o Dog, Description |-> << >>,
       Category |-> Pets, DocumentType |-> "policy", Tags |-> << >>],
      [Name |-> Cow, Content |-> <<"t","h","e">> \o SP \o Dog,
       Description |-> Cat, Category |-> Pets, DocumentType |-> "onboarding",
       Tags |-> <<Cat, Dog>>] }

\* a nil *bool is << >>, a pointer to b is <<b>>
UpdateRequests ==
    { [Name |-> << >>, Content |-> << >>, Description |-> << >>,
       Category |-> << >>, DocumentType |-> "", Tags |-> << >>,
       IsActive |-> <<b>>] : b \in BOOLEAN }

Queries ==
    { Password, Passwrd, Xyz123, Cat, Cot, Dog,
      Cat \o SP \o Dog, <<"t","h","e">>, <<"T","e","s","t","e","d">>,
      << >>, <<" ","!"," ">>, <<"a"," ","x","!","7">> }

Limits == {-1, 0, 1, 10}

NoResult == Returns(<< >>)

\* no text: stands for "Search has not been called"
NoQuery == <<"(none)">>

----------------------------------------------------------------------------
(* The state machine                                                       *)
(*   db      the rows of the policy_files table, in primary-key order      *)
(*   se      the SearchEngine most recently constructed or updated         *)
(*   query, limit, result                                                  *)
(*           the arguments and the outcome of the call of Search on se     *)
(*           that has not yet handed its result to the caller              *)
(*                                                                         *)
(*   call, ret                                                             *)
(*           a call of one of the text utilities on its own: the function  *)
(*           and its arguments, and the value it returns (TextSpec)        *)
(*                                                                         *)
(*   build   the call of BuildIndex or UpdateDocuments on se that has      *)
(*           started and not returned: where it is, the engine it started  *)
(*           from and the document list it installs (RebuildSpec)          *)
(*                                                                         *)
(* In Spec and HandlerSpec operations are atomic and do not overlap: a     *)
(* call of Search ends with the caller taking the result (Return) before   *)
(* the next operation starts. In RebuildSpec a rebuild runs statement by   *)
(* statement and a goroutine calls Search between two of its statements.   *)

\* no call of a text utility on its own
NoCall == [fn |-> "(none)", args |-> << >>]

\* the call has not returned
NoRet == [done |-> FALSE]

\* no rebuild of se is under way
NoBuild == [pc |-> "idle"]

Init ==
    /\ db = << >>
    /\ se = NewSearchEngine(<< >>)
    /\ query = NoQuery
    /\ limit = 0
    /\ result = NoResult
    /\ call = NoCall
    /\ ret = NoRet
    /\ build = NoBuild

NoSearch == query' = NoQuery /\ limit' = 0 /\ result' = NoResult

\* a call of Search has produced its outcome and the caller holds it
Searched == query # NoQuery

\* createDocument: the row gets the next primary key and is_active = true;
\* the handler then constructs a fresh engine
createDocument ==
    \E req \in CreateRequests :
        /\ ~Searched
        /\ Len(db) < MaxDocs
        /\ req.DocumentType \in {"policy", "onboarding"}
        /\ db' = Append(db, PolicyFile(Len(db) + 1, req.Name, req.Description,
                                       req.Content, req.Category, req.Tags,
                                       req.DocumentType, TRUE))
        /\ se' = NewSearchEngine(db')
        /\ NoSearch
        /\ UNCHANGED <<call, ret, build>>

\* the row after db.Model(&document).Updates(updates)
Updated(doc, req) ==
    [doc EXCEPT
        !.Name = IF req.Name # << >> THEN req.Name ELSE @,
        !.Content = IF req.Content # << >> THEN req.Content ELSE @,
        !.Description = IF req.Description # << >> THEN req.Description ELSE @,
        !.Category = IF req.Category # << >> THEN req.Category ELSE @,
        !.DocumentType = IF req.DocumentType # "" THEN req.DocumentType ELSE @,
        !.TagsArray = IF req.Tags # << >> THEN req.Tags ELSE @,
        !.IsActive = IF req.IsActive # << >> THEN req.IsActive[1] ELSE @]

updateDocument ==
    \E k \in 1..Len(db), req \in UpdateRequests :
        /\ ~Searched
        /\ req.DocumentType \in {"", "policy", "onboarding"}
        /\ db' = [db EXCEPT ![k] = Updated(@, req)]
        /\ se' = NewSearchEngine(db')
        /\ NoSearch
        /\ UNCHANGED <<call, ret, build>>

\* deleteDocument: a soft delete
deleteDocument ==
    \E k \in 1..Len(db) :
        /\ ~Searched
        /\ db' = [db EXCEPT ![k].IsActive = FALSE]
        /\ se' = NewSearchEngine(db')
        /\ NoSearch
        /\ UNCHANGED <<call, ret, build>>

CallNewSearchEngine ==
    /\ ~Searched
    /\ se' = NewSearchEngine(db)
    /\ NoSearch
    /\ UNCHANGED <<db, call, ret, build>>

CallUpdateDocuments ==
    \E docs \in Snapshots :
        /\ ~Searched
        /\ se' = UpdateDocuments(se, docs)
        /\ NoSearch
        /\ UNCHANGED <<db, call, ret, build>>

CallBuildIndex ==
    /\ ~Searched
    /\ se' = BuildIndex(se)
    /\ NoSearch
    /\ UNCHANGED <<db, call, ret, build>>

\* CallSearch with a map read that inserts the key it does not find
CallSearchInserting ==
    \E q \in Queries, lim \in Limits :
        /\ ~Searched
        /\ result' \in Search(se, q, lim)
        /\ query' = q
        /\ limit' = lim
        /\ se' = [se EXCEPT !.Index =
                     LET words == {normalizeWord(tokenize(q)[k]) :
                                      k \in 1..Len(tokenize(q))}
                     IN  [w \in DOMAIN se.Index \cup words |->
                             findMatches(se, w)]]
        /\ UNCHANGED <<db, call, ret, build>>

CallSearch ==
    \E q \in Queries, lim \in Limits :
        /\ ~Searched
        /\ result' \in Search(se, q, lim)
        /\ query' = q
        /\ limit' = lim
        /\ UNCHANGED <<db, se, call, ret, build>>

\* the caller takes the outcome of Search
Return ==
    /\ Searched
    /\ NoSearch
    /\ UNCHANGED <<db, se, call, ret, build>>

Next ==
    \/ createDocument
    \/ updateDocument
    \/ deleteDocument
    \/ CallNewSearchEngine
    \/ CallUpdateDocuments
    \/ CallBuildIndex
    \/ CallSearch
    \/ Return

Spec == Init /\ [][Next]_vars

----------------------------------------------------------------------------
(* The text utilities on their own: a call of levenshteinDistance or of    *)
(* normalizeWord with arguments drawn from Strings and Words               *)

Cafe == <<"c","a","f","e">>
CafeAcute == <<"c","a","f","U+00E9">>
CafeGrave == <<"c","a","f","U+00E8">>

\* the arguments of levenshteinDistance
Strings ==
    { << >>, Cat, Cot, Cow, Dog, <<"c","a">>, <<"c","a","t","s">>,
      <<"a","c","t">>, <<"c","a","f">>, Cafe, CafeAcute, CafeGrave,
      <<"U+00E9">> }

\* the arguments of normalizeWord
Words ==
    { <<"t","e","s","t","i","n","g">>, <<"T","e","s","t","e","d">>,
      <<"t","e","s","t","e","r">>, <<"t","e","s","t">>,
      <<"b","a","k","e","d">>, <<"u","s","e","d">>, <<"e","d">>,
      <<"r","i","n","g">>, <<"b","r","i","n","g">>,
      <<"s","t","r","i","n","g">>, <<"f","a","s","t","e","s","t">>,
      <<"e","a","r","l","y">>, <<"o","n","l","y">>,
      <<"o","n","i","o","n">>, <<"n","a","t","i","o","n">>,
      <<"s","t","a","t","i","o","n">>, <<"m","i","s","s","i","o","n">>,
      <<"k","i","n","d","n","e","s","s">>, <<"p","a","y","m","e","n","t">>,
      <<"c","e","m","e","n","t">>, <<"k","i","n","d","l","y","e","d">>,
      <<"f","U+00E9","e","d">>, <<"U+00E9","e","d">>, Cat, << >>,
      <<"t","i","o","n">>, <<"a","t","i","o","n">>, <<"s","i","o","n">>,
      <<"V","i","s","i","o","n">> }

TextInit ==
    /\ db = << >>
    /\ se = NewSearchEngine(<< >>)
    /\ query = NoQuery
    /\ limit = 0
    /\ result = NoResult
    /\ ret = NoRet
    /\ build = NoBuild
    /\ \/ \E s1, s2 \in Strings :
              call = [fn |-> "levenshteinDistance", args |-> <<s1, s2>>]
       \/ \E word \in Words :
              call = [fn |-> "normalizeWord", args |-> <<word>>]

CallLevenshteinDistance ==
    /\ call.fn = "levenshteinDistance"
    /\ ~ret.done
    /\ ret' = [done |-> TRUE,
               value |-> levenshteinDistance(call.args[1], call.args[2])]
    /\ UNCHANGED <<db, se, query, limit, result, call, build>>

CallNormalizeWord ==
    /\ call.fn = "normalizeWord"
    /\ ~ret.done
    /\ ret' = [done |-> TRUE, value |-> normalizeWord(call.args[1])]
    /\ UNCHANGED <<db, se, query, limit, result, call, build>>

TextNext ==
    \/ CallLevenshteinDistance
    \/ CallNormalizeWord

TextSpec == TextInit /\ [][TextNext]_vars

----------------------------------------------------------------------------
(* The search handlers: every request builds an engine of its own from the *)
(* rows of the table, searches it and answers; se is that engine, query,   *)
(* limit and result the call of Search it makes, call and ret the handler  *)
(* with its parameters and the response.                                   *)

\* the q or message of a request
HandlerQueries == {Cat, Dog, Cow, << >>}

\* the type parameter of searchDocuments
DocumentTypes == {"", "policy", "onboarding"}

\* the category parameter of searchDocuments
Categories == {<< >>, <<"p","e","t","s">>, <<"h","r">>}

\* strings.EqualFold
EqualFold(s, t) ==
    [i \in 1..Len(s) |-> ToLower(s[i])] = [i \in 1..Len(t) |-> ToLower(t[i])]

\* for _, match := range matches { append(matchedPolicies, match.Document) }
DocumentsOf(matches) == [i \in 1..Len(matches) |-> matches[i].Document]

\* the documents of the matches that pass the type and category filters
FilteredDocuments(matches, documentType, category) ==
    SelectSeq(DocumentsOf(matches),
              LAMBDA doc :
                  /\ ~(documentType # "" /\ doc.DocumentType # documentType)
                  /\ ~(category # << >> /\ ~EqualFold(doc.Category, category)))

\* the response of searchDocuments to a query that is not empty
SearchResponse(q, matches, filteredDocuments) ==
    [status |-> 200,
     documents |-> filteredDocuments,
     total |-> Len(filteredDocuments),
     query |-> q,
     matches |-> SubSeq(matches, 1,
                        minInt(Len(matches), Len(filteredDocuments)))]

\* the ChatResponse of the two chat handlers
ChatResponse(type, matches) ==
    [Type |-> type, PolicyFiles |-> DocumentsOf(matches)]

handleOnboardingWithLLM ==
    \E message \in HandlerQueries :
        /\ ~Searched
        /\ se' = NewSearchEngine(db)
        /\ query' = message
        /\ limit' = 5
        /\ result' \in Search(se', message, 5)
        /\ call' = [fn |-> "handleOnboardingWithLLM", args |-> <<message>>]
        /\ ret' = [done |-> TRUE,
                   value |-> ChatResponse("onboarding", result'.results)]
        /\ UNCHANGED <<db, build>>

handlePolicySearch ==
    \E q \in HandlerQueries :
        /\ ~Searched
        /\ se' = NewSearchEngine(db)
        /\ query' = q
        /\ limit' = 10
        /\ result' \in Search(se', q, 10)
        /\ call' = [fn |-> "handlePolicySearch", args |-> <<q>>]
        /\ ret' = [done |-> TRUE,
                   value |-> ChatResponse("policy_search", result'.results)]
        /\ UNCHANGED <<db, build>>

\* searchDocuments: 400 for an empty q, and no engine is built
searchDocuments ==
    \E q \in HandlerQueries, documentType \in DocumentTypes,
       category \in Categories :
        /\ ~Searched
        /\ query' = q
        /\ call' = [fn |-> "searchDocuments",
                    args |-> <<q, documentType, category>>]
        /\ IF q = << >>
           THEN /\ ret' = [done |-> TRUE, value |-> [status |-> 400]]
                /\ limit' = 0
                /\ result' = NoResult
                /\ UNCHANGED se
           ELSE /\ se' = NewSearchEngine(db)
                /\ limit' = 20
                /\ result' \in Search(se', q, 20)
                /\ ret' = [done |-> TRUE,
                           value |-> SearchResponse(q, result'.results,
                                        FilteredDocuments(result'.results,
                                                          documentType, category))]
        /\ UNCHANGED <<db, build>>

\* the handler has answered
Respond ==
    /\ Searched
    /\ call # NoCall
    /\ NoSearch
    /\ call' = NoCall
    /\ ret' = NoRet
    /\ UNCHANGED <<db, se, build>>

HandlerNext ==
    \/ createDocument
    \/ updateDocument
    \/ deleteDocument
    \/ handleOnboardingWithLLM
    \/ handlePolicySearch
    \/ searchDocuments
    \/ Respond

HandlerSpec == Init /\ [][HandlerNext]_vars

----------------------------------------------------------------------------
(* A rebuild of an engine that a second goroutine searches                 *)
(*   SearchEngine has no lock and BuildIndex fills se.Index in place, so   *)
(*   a rebuild is a sequence of writes to the engine. The steps below are  *)
(*   its statements; a call of Search (CallSearch) runs between two of     *)
(*   them and reads the engine as it is there. The schedules in which a    *)
(*   call of Search overlaps a single statement of the rebuild are a data  *)
(*   race, and their outcomes are not among the ones modelled here.        *)

\* the rebuild is at statement pc; it started from the engine old and
\* installs the list docs; k is the position of the range loop
Rebuild(pc, old, docs, k) == [pc |-> pc, old |-> old, docs |-> docs, k |-> k]

\* the engine has been constructed over the rows of the table
RebuildInit ==
    /\ db \in Snapshots
    /\ se = NewSearchEngine(db)
    /\ query = NoQuery
    /\ limit = 0
    /\ result = NoResult
    /\ call = NoCall
    /\ ret = NoRet
    /\ build = NoBuild

\* UpdateDocuments(docs) is called: se.Documents = docs
BeginUpdateDocuments ==
    \E docs \in Snapshots :
        /\ build = NoBuild
        /\ ~Searched
        /\ se' = [se EXCEPT !.Documents = docs]
        /\ build' = Rebuild("make", se, docs, 0)
        /\ UNCHANGED <<db, query, limit, result, call, ret>>

\* BuildIndex is called on its own
BeginBuildIndex ==
    /\ build = NoBuild
    /\ ~Searched
    /\ build' = Rebuild("make", se, se.Documents, 0)
    /\ UNCHANGED <<db, se, query, limit, result, call, ret>>

\* se.Index = make(map[string][]DocumentIndex); the range expression
\* se.Documents is evaluated
MakeIndex ==
    /\ build # NoBuild
    /\ build.pc = "make"
    /\ ~Searched
    /\ se' = [se EXCEPT !.Index = EmptyIndex]
    /\ build' = [build EXCEPT !.pc = "range", !.docs = se.Documents, !.k = 1]
    /\ UNCHANGED <<db, query, limit, result, call, ret>>

\* one iteration of the range loop of BuildIndex
IndexNextDocument ==
    /\ build # NoBuild
    /\ build.pc = "range"
    /\ build.k <= Len(build.docs)
    /\ ~Searched
    /\ se' = [se EXCEPT !.Index =
                 IF ~build.docs[build.k].IsActive THEN @
                 ELSE IndexDocument(@, build.docs[build.k])]
    /\ build' = [build EXCEPT !.k = @ + 1]
    /\ UNCHANGED <<db, query, limit, result, call, ret>>

\* the range loop is over and the call returns
EndBuildIndex ==
    /\ build # NoBuild
    /\ build.pc = "range"
    /\ build.k > Len(build.docs)
    /\ ~Searched
    /\ build' = NoBuild
    /\ UNCHANGED <<db, se, query, limit, result, call, ret>>

RebuildNext ==
    \/ BeginUpdateDocuments
    \/ BeginBuildIndex
    \/ MakeIndex
    \/ IndexNextDocument
    \/ EndBuildIndex
    \/ CallSearch
    \/ Return

RebuildSpec == RebuildInit /\ [][RebuildNext]_vars

----------------------------------------------------------------------------
(* Notions the properties below are stated with                            *)

Range(seq) == {seq[i] : i \in 1..Len(seq)}

\* the ids of the documents of a returned slice, as a set and in order
ResultIDs(results) == {results[i].Document.ID : i \in 1..Len(results)}
ResultOrder(results) == [i \in 1..Len(results) |-> results[i].Document.ID]
ResultScores(results) == [i \in 1..Len(results) |-> results[i].Score]

\* the normalized terms of the query of the call
QueryTerms == [k \in 1..Len(tokenize(query)) |-> normalizeWord(tokenize(query)[k])]

\* the ids of the documents with a posting under term t
DocsWith(eng, t) == {p.DocumentID : p \in Range(findMatches(eng, t))}

ActiveDocs(eng) == {d \in Range(eng.Documents) : d.IsActive}

\* the index terms within edit distance n of word
Within(eng, word, n) ==
    {t \in DOMAIN eng.Index : levenshteinDistance(word, t) <= n}

\* document a comes before document b in the returned slice, or a is
\* returned and b is not
RankedAbove(a, b) ==
    \E i \in 1..Len(result.results) :
        /\ result.results[i].Document.ID = a
        /\ \A j \in 1..Len(result.results) :
               result.results[j].Document.ID = b => i < j

\* the postings of t are one in the name of a and one in the content of b,
\* with frequency 1 each
OnlyNameAndContent(eng, t, a, b) ==
    LET ps == findMatches(eng, t) IN
    /\ a # b
    /\ Len(ps) = 2
    /\ \E i, j \in 1..2 :
           /\ ps[i] = DocumentIndex(a, "name", 1, ps[i].Positions)
           /\ ps[j] = DocumentIndex(b, "content", 1, ps[j].Positions)

\* a term that tokenize and normalizeWord leave as it is
Searchable(t) == tokenize(t) = <<t>> /\ normalizeWord(t) = t

\* the call searched for the one term t and returned a slice
SearchedFor(t) ==
    /\ Searched
    /\ ~result.panic
    /\ QueryTerms = <<t>>

----------------------------------------------------------------------------
(* C1 .. C10                                                               *)

\* C1: after BuildIndex, UpdateDocuments or NewSearchEngine every posting of
\* the index, under every term, names a document of se.Documents whose
\* IsActive is true; no posting names an inactive document.
C1_PostingsNameActiveDocuments ==
    \A t \in DOMAIN se.Index :
        \A p \in Range(se.Index[t]) :
            /\ \E d \in Range(se.Documents) : d.ID = p.DocumentID /\ d.IsActive
            /\ \A d \in Range(se.Documents) : d.ID = p.DocumentID => d.IsActive

\* the index is not empty and was built from a snapshot that holds an
\* inactive document with words in it
C1_Witness ==
    /\ DOMAIN se.Index # {}
    /\ \E d \in Range(se.Documents) :
           ~d.IsActive /\ tokenize(d.Name \o SP \o d.Content) # << >>

\* C2: Search never returns a DocumentMatch whose document is inactive, for
\* every snapshot, query and limit, also when the query term occurs only in
\* inactive documents and the fuzzy fallback is taken.
C2_SearchReturnsOnlyActiveDocuments ==
    Searched =>
        \A i \in 1..Len(result.results) : result.results[i].Document.IsActive

\* the query term occurs in an inactive document only, has no posting, and
\* the fuzzy fallback returned a document
C2_Witness ==
    /\ Searched
    /\ Len(QueryTerms) = 1
    /\ findMatches(se, QueryTerms[1]) = << >>
    /\ \E d \in Range(se.Documents) :
           ~d.IsActive /\ QueryTerms[1] \in Range(tokenize(d.Name))
    /\ Len(result.results) > 0

\* C3: on the scenario corpus A, B, C, Search("password", 10) returns
\* exactly [A, B] in that order, A's total score greater than B's.
C3_ScenarioPasswordReturnsAB ==
    (Searched /\ se.Documents = ScenarioCorpus /\ query = Password /\ limit = 10)
        => /\ ~result.panic
           /\ ResultOrder(result.results) = <<DocA.ID, DocB.ID>>
           /\ result.results[1].Score > result.results[2].Score

\* C4 as stated: in every corpus in which term X has one posting in the name
\* of A and one in the content of B and no other, the corpus of just A and B
\* included, Search("X") ranks A above B.
C4_NameRanksAboveContent ==
    \A a, b \in {d.ID : d \in Range(se.Documents)} :
        (/\ Len(QueryTerms) = 1
         /\ SearchedFor(QueryTerms[1])
         /\ OnlyNameAndContent(se, QueryTerms[1], a, b))
            => RankedAbove(a, b)

\* C4 as amended: the same, for every corpus whose snapshot holds at least
\* one document besides A and B; A's score is then greater than B's.
C4_NameRanksAboveContentOfThree ==
    \A a, b \in {d.ID : d \in Range(se.Documents)} :
        (/\ Len(QueryTerms) = 1
         /\ SearchedFor(QueryTerms[1])
         /\ OnlyNameAndContent(se, QueryTerms[1], a, b)
         /\ Len(se.Documents) > 2)
            => /\ RankedAbove(a, b)
               /\ \A i, j \in 1..Len(result.results) :
                      /\ result.results[i].Document.ID = a
                      /\ result.results[j].Document.ID = b
                      => result.results[i].Score > result.results[j].Score

\* a search for such a term in a corpus of three returned both A and B
C4_Witness ==
    /\ Len(QueryTerms) = 1
    /\ SearchedFor(QueryTerms[1])
    /\ Len(se.Documents) > 2
    /\ \E a, b \in ResultIDs(result.results) :
           OnlyNameAndContent(se, QueryTerms[1], a, b)

\* the limit Search works with
EffectiveLimit == IF limit = 0 THEN 10 ELSE limit

\* the call searched for the one term q, which has no posting, and t is an
\* index term at edit distance 1 from q that can be searched for itself
MisspellingOf(q, t) ==
    /\ SearchedFor(q)
    /\ findMatches(se, q) = << >>
    /\ t \in DOMAIN se.Index
    /\ levenshteinDistance(q, t) = 1
    /\ Searchable(t)

\* C5 as stated: when the query term q has no exact posting and is at edit
\* distance 1 from an index term t, Search(q) returns the set of documents
\* Search(t) returns, whatever other terms the vocabulary holds.
C5_MisspellingReturnsSameDocuments ==
    \A t \in DOMAIN se.Index :
        (Len(QueryTerms) = 1 /\ MisspellingOf(QueryTerms[1], t))
            => ResultIDs(result.results) \in
                   {ResultIDs(r.results) : r \in Search(se, t, limit)}

\* C5 as amended: the same, when t is the only index term within edit
\* distance 2 of q and no more than limit documents hold t; the set then is
\* the set of the documents that hold t.
C5_LoneMisspellingReturnsSameDocuments ==
    \A t \in DOMAIN se.Index :
        (/\ Len(QueryTerms) = 1
         /\ MisspellingOf(QueryTerms[1], t)
         /\ Within(se, QueryTerms[1], 2) = {t}
         /\ Cardinality(DocsWith(se, t)) <= EffectiveLimit)
            => /\ ResultIDs(result.results) = DocsWith(se, t)
               /\ \A r \in Search(se, t, limit) :
                      ResultIDs(r.results) = ResultIDs(result.results)

\* a misspelled term with one index term near it, and documents returned
C5_Witness ==
    /\ Len(QueryTerms) = 1
    /\ \E t \in DOMAIN se.Index :
           /\ MisspellingOf(QueryTerms[1], t)
           /\ Within(se, QueryTerms[1], 2) = {t}
           /\ Cardinality(DocsWith(se, t)) <= EffectiveLimit
    /\ Len(result.results) > 0

\* C6: a posting reached through the fuzzy fallback scores as it would for
\* an exact match of its index term: a search for a misspelling of the one
\* index term t near it returns what a search for t returns, same documents,
\* same order, same scores; on the scenario corpus Search("passwrd", 10)
\* returns what Search("password", 10) returns, and the scores are not zero.
C6_FuzzyScoresAsExact ==
    /\ \A t \in DOMAIN se.Index :
           (/\ Len(QueryTerms) = 1
            /\ MisspellingOf(QueryTerms[1], t)
            /\ Within(se, QueryTerms[1], 2) = {t})
               => \E r \in Search(se, t, limit) :
                      /\ ResultOrder(r.results) = ResultOrder(result.results)
                      /\ ResultScores(r.results) = ResultScores(result.results)
    /\ (Searched /\ se.Documents = ScenarioCorpus /\ query = Passwrd /\ limit = 10)
           => /\ \E r \in Search(se, Password, 10) :
                     /\ ResultOrder(r.results) = ResultOrder(result.results)
                     /\ ResultScores(r.results) = ResultScores(result.results)
              /\ \A i \in 1..Len(result.results) : result.results[i].Score # 0

\* the index terms a query term can draw postings from: itself, or, when it
\* has no posting, the terms within edit distance 2
Candidates(eng, q) ==
    IF findMatches(eng, q) # << >> THEN {q} ELSE Within(eng, q, 2)

\* C7: a query term without exact postings and without an index term within
\* edit distance 2 contributes no match, a query of such terms only returns
\* the empty list, and an index term at distance 3 or more is never a fuzzy
\* candidate: every returned document holds the query term itself or, for a
\* query term without postings, an index term within distance 2 of it.
C7_NoCandidateBeyondDistanceTwo ==
    (Searched /\ ~result.panic) =>
        /\ (\A k \in 1..Len(QueryTerms) : Candidates(se, QueryTerms[k]) = {})
               => result.results = << >>
        /\ \A id \in ResultIDs(result.results) :
               \E k \in 1..Len(QueryTerms) :
                   \E t \in Candidates(se, QueryTerms[k]) : id \in DocsWith(se, t)

\* the query term has no posting, the nearest index term is at distance 3,
\* and the empty list was returned
C7_Witness ==
    /\ Len(QueryTerms) = 1
    /\ SearchedFor(QueryTerms[1])
    /\ Within(se, QueryTerms[1], 2) = {}
    /\ Within(se, QueryTerms[1], 3) # {}
    /\ result.results = << >>

\* the number of active documents that hold term t in some field
DocumentFrequency(eng, t) == Cardinality(DocsWith(eng, t))

\* C8: calculateIDF(t) = ln(N / n), n the number of distinct active documents
\* that hold t and N the number of active documents, and 0 when n = 0.
C8_IDFCountsActiveDocuments ==
    \A t \in DOMAIN se.Index \cup {Xyz123} :
        calculateIDF(se, t) =
            IF DocumentFrequency(se, t) = 0 THEN 0
            ELSE Log(Cardinality(ActiveDocs(se)), DocumentFrequency(se, t))

\* C9: of two index terms, the one in fewer active documents has the greater
\* idf.
C9_IDFMonotonic ==
    \A t1, t2 \in DOMAIN se.Index :
        DocumentFrequency(se, t1) < DocumentFrequency(se, t2)
            => calculateIDF(se, t1) > calculateIDF(se, t2)

\* C10: of two returned documents with equal score the one with the smaller
\* id comes first, so the call can return the documents in one order only.
C10_TiesByAscendingID ==
    (Searched /\ ~result.panic) =>
        /\ \A i, j \in 1..Len(result.results) :
               (i < j /\ result.results[i].Score = result.results[j].Score)
                   => result.results[i].Document.ID < result.results[j].Document.ID
        /\ \A r \in Search(se, query, limit) :
               ResultOrder(r.results) = ResultOrder(result.results)

----------------------------------------------------------------------------
(* C11 .. C20                                                              *)

\* the documents the loop over the query words gave a score, and that
\* getDocumentByID finds
Scored(eng, acc) == {id \in DOMAIN acc : getDocumentByID(eng, id) # Nil}

\* C11: the returned list is in order of non-increasing Score, and
\* truncation to the limit keeps the highest-scoring documents: the list
\* holds min(limit, number of scored documents) of the scored documents and
\* no document left out has a greater score than a document returned.
C11_OrderedByScore ==
    (Searched /\ ~result.panic /\ tokenize(query) # << >>) =>
        LET rs == result.results IN
        /\ \A i \in 1..(Len(rs) - 1) : rs[i].Score >= rs[i + 1].Score
        /\ \A acc \in ScoreWords(se, tokenize(query), 1, << >>) :
               /\ Len(rs) = minInt(Cardinality(Scored(se, acc)), EffectiveLimit)
               /\ ResultIDs(rs) \subseteq Scored(se, acc)
               /\ \A id \in Scored(se, acc) \ ResultIDs(rs) :
                      \A i \in 1..Len(rs) : acc[id].Score <= rs[i].Score

\* the limit cut the list, and a document left out has a smaller score than
\* the last one returned
C11_Witness ==
    /\ Searched
    /\ ~result.panic
    /\ Len(result.results) > 0
    /\ \E acc \in ScoreWords(se, tokenize(query), 1, << >>) :
           \E id \in Scored(se, acc) \ ResultIDs(result.results) :
               acc[id].Score < result.results[Len(result.results)].Score

\* C12: when tokenize yields no term for the query (the empty string, only
\* separators, only stopwords and one-character tokens) Search returns the
\* empty list and does not fail, whatever the index and the limit.
C12_EmptyQueryReturnsEmpty ==
    (Searched /\ tokenize(query) = << >>) => result = Returns(<< >>)

\* a query of a stopword and one-character tokens, a negative limit and an
\* index that is not empty
C12_Witness ==
    /\ Searched
    /\ query # << >>
    /\ tokenize(query) = << >>
    /\ limit < 0
    /\ DOMAIN se.Index # {}
    /\ result = Returns(<< >>)

\* C13: with a limit of zero or less Search does what it does with limit 10:
\* it returns at most 10 results and does not panic.
C13_NonPositiveLimitIsTen ==
    (Searched /\ limit <= 0) =>
        /\ ~result.panic
        /\ Len(result.results) <= 10
        /\ result \in Search(se, query, 10)

\* C14: a call of Search leaves the engine as it was: the same index terms
\* with the same postings and the same document list; a term that is looked
\* up and not found is not added to the vocabulary.
C14_SearchLeavesEngineUnchanged ==
    [][(~Searched /\ Searched') => (se' = se /\ db' = db)]_vars

\* Search took the fuzzy fallback for a term that is not in the vocabulary,
\* and the term is not in the vocabulary after the call
C14_Witness ==
    /\ Searched
    /\ ~result.panic
    /\ Len(result.results) > 0
    /\ \E k \in 1..Len(QueryTerms) :
           /\ QueryTerms[k] \notin DOMAIN se.Index
           /\ Within(se, QueryTerms[k], 2) # {}

\* the postings of the index, each with its term
Postings(eng) ==
    UNION { {<<t, eng.Index[t][i]>> : i \in 1..Len(eng.Index[t])} :
            t \in DOMAIN eng.Index }

\* C15: BuildIndex on an engine whose index BuildIndex has built from the
\* same documents yields the same index: the same terms, and for each term
\* the same postings in the same order, with the same frequencies and
\* positions. (Stated of the engine as every operation leaves it; a call
\* of Search in progress holds the same engine.)
C15_BuildIndexIdempotent ==
    ~Searched =>
        /\ BuildIndex(se).Index = se.Index
        /\ BuildIndex(BuildIndex(se)) = BuildIndex(se)

\* a built index with a posting of frequency 2 or more
C15_Witness ==
    /\ ~Searched
    /\ \E tp \in Postings(se) : tp[2].Frequency >= 2
    /\ BuildIndex(se) = se

\* the text BuildIndex hands to indexField for a field of a document
FieldText(doc, field) ==
    CASE field = "name" -> doc.Name
      [] field = "description" -> doc.Description
      [] field = "content" -> doc.Content
      [] field = "category" -> doc.Category
      [] field = "tags" -> Join(doc.TagsArray, 1)

\* the tokens of the field a posting is about
TokensOf(eng, posting) ==
    tokenize(FieldText(getDocumentByID(eng, posting.DocumentID), posting.Field))

\* C16: no two postings of a term have the same document and field: a
\* further occurrence of the term in the field is counted in the posting
\* that exists, also when the raw words differ and stem to the same term.
C16_OnePostingPerDocumentAndField ==
    \A t \in DOMAIN se.Index :
        \A i, j \in 1..Len(se.Index[t]) :
            (/\ se.Index[t][i].DocumentID = se.Index[t][j].DocumentID
             /\ se.Index[t][i].Field = se.Index[t][j].Field) => i = j

\* a posting that counts two different raw words of one field
C16_Witness ==
    \E tp \in Postings(se) :
        \E i, j \in 1..Len(tp[2].Positions) :
            TokensOf(se, tp[2])[tp[2].Positions[i] + 1]
                # TokensOf(se, tp[2])[tp[2].Positions[j] + 1]

\* C17: every posting has Frequency = len(Positions) >= 1, its positions
\* ascend strictly, and each is the 0-based offset of a token of the
\* document's field that normalizes to the posting's term.
C17_FrequencyCountsPositions ==
    \A tp \in Postings(se) :
        LET p == tp[2]
            tokens == TokensOf(se, p)
        IN  /\ p.Frequency = Len(p.Positions)
            /\ p.Frequency >= 1
            /\ \A i \in 1..(Len(p.Positions) - 1) :
                   p.Positions[i] < p.Positions[i + 1]
            /\ \A i \in 1..Len(p.Positions) :
                   /\ p.Positions[i] >= 0
                   /\ p.Positions[i] < Len(tokens)
                   /\ normalizeWord(tokens[p.Positions[i] + 1]) = tp[1]

\* a posting of frequency 3 whose positions are the first and the last
\* token of the field and one between
C17_Witness ==
    \E tp \in Postings(se) :
        /\ tp[2].Frequency = 3
        /\ tp[2].Positions[1] = 0
        /\ tp[2].Positions[3] = Len(TokensOf(se, tp[2])) - 1

\* the call of fn on its own has returned
Returned(fn) == call.fn = fn /\ ret.done

\* C18: levenshteinDistance(a, b) = levenshteinDistance(b, a), and
\* levenshteinDistance(a, a) = 0, also when a or b is empty.
C18_LevenshteinSymmetric ==
    Returned("levenshteinDistance") =>
        /\ ret.value = levenshteinDistance(call.args[2], call.args[1])
        /\ (call.args[1] = call.args[2] => ret.value = 0)

\* the distance of the empty string and a string that is not empty
C18_Witness ==
    /\ Returned("levenshteinDistance")
    /\ call.args[1] = << >>
    /\ call.args[2] # << >>
    /\ ret.value = len(call.args[2])

\* the least number of insertions, deletions and substitutions of one
\* character that turn text a into text b
RECURSIVE EditDistance(_, _)
EditDistance(a, b) ==
    IF a = << >> THEN Len(b)
    ELSE IF b = << >> THEN Len(a)
    ELSE IF Head(a) = Head(b) THEN EditDistance(Tail(a), Tail(b))
    ELSE 1 + SetMin({EditDistance(Tail(a), b), EditDistance(a, Tail(b)),
                     EditDistance(Tail(a), Tail(b))})

\* text a without its i-th character
Without(a, i) == SubSeq(a, 1, i - 1) \o SubSeq(a, i + 1, Len(a))

\* b is a with one character inserted, deleted or replaced by another
OneEdit(a, b) ==
    \/ \E i \in 1..Len(b) : a = Without(b, i)
    \/ \E i \in 1..Len(a) : b = Without(a, i)
    \/ /\ Len(a) = Len(b)
       /\ Cardinality({i \in 1..Len(a) : a[i] # b[i]}) = 1

\* C19: levenshteinDistance(a, b) is the least number of one-character
\* insertions, deletions and substitutions that turn a into b; it is 1 when
\* b is a with one character inserted, deleted or replaced, also when the
\* character takes more than one byte.
C19_LevenshteinIsEditDistance ==
    Returned("levenshteinDistance") =>
        /\ ret.value = EditDistance(call.args[1], call.args[2])
        /\ OneEdit(call.args[1], call.args[2]) => ret.value = 1

\* strings.ToLower(word)
Lower(word) == [i \in 1..Len(word) |-> ToLower(word[i])]

\* the places in the suffix list of the suffixes word ends with
Ending(word) == {k \in 1..Len(suffixes) : HasSuffix(word, suffixes[k])}

\* word without the first suffix of the list it ends with
Stem(word) ==
    SubSeq(word, 1, Len(word) - Len(suffixes[SetMin(Ending(word))]))

\* C20 as stated: normalizeWord strips the first suffix of the list the
\* lower-cased word ends with when the stem that remains is at least 2
\* characters longer than the suffix, and returns the lower-cased word as it
\* is otherwise; one suffix is removed at most.
C20_StripsWhenStemTwoLongerThanSuffix ==
    Returned("normalizeWord") =>
        LET word == Lower(call.args[1]) IN
        ret.value =
            IF /\ Ending(word) # {}
               /\ Len(Stem(word)) >= Len(suffixes[SetMin(Ending(word))]) + 2
            THEN Stem(word)
            ELSE word

\* C20 as amended: the first suffix of the list the word ends with is
\* stripped when the word is more than 2 bytes longer than the suffix, that
\* is when the stem that remains has 3 bytes or more.
C20_StripsWhenStemOfThreeBytes ==
    Returned("normalizeWord") =>
        LET word == Lower(call.args[1]) IN
        ret.value =
            IF Ending(word) # {} /\ len(Stem(word)) >= 3
            THEN Stem(word)
            ELSE word

\* a word whose stem has 3 bytes, "baked", has lost its suffix
C20_Witness ==
    /\ Returned("normalizeWord")
    /\ call.args[1] = <<"b","a","k","e","d">>
    /\ ret.value = <<"b","a","k">>

----------------------------------------------------------------------------
(* C21 .. C30                                                              *)

\* word without its last n characters
DropLast(word, n) == SubSeq(word, 1, Len(word) - n)

\* C30: normalizeWord never strips "tion" or "sion": of a word with one of
\* these endings it returns the word without "ion", or the word as it is
\* when the word is too short, and never the word without the four letters.
C30_TionSionNeverStripped ==
    Returned("normalizeWord") =>
        LET word == Lower(call.args[1]) IN
        (HasSuffix(word, <<"t","i","o","n">>) \/ HasSuffix(word, <<"s","i","o","n">>))
            => /\ ret.value # DropLast(word, 4)
               /\ ret.value \in {DropLast(word, 3), word}
               /\ ret.value = DropLast(word, 3) => ret.value[Len(ret.value)] \in {"t", "s"}

\* "station" has lost "ion" and kept the t
C30_Witness ==
    /\ Returned("normalizeWord")
    /\ call.args[1] = <<"s","t","a","t","i","o","n">>
    /\ ret.value = <<"s","t","a","t">>

\* C27: no relevance value is negative: calculateIDF is 0 or more for every
\* term, and so is every Match.Score and every DocumentMatch.Score that
\* Search returns.
C27_ScoresNonNegative ==
    /\ \A t \in DOMAIN se.Index : calculateIDF(se, t) >= 0
    /\ (Searched /\ ~result.panic) =>
           \A i \in 1..Len(result.results) :
               /\ result.results[i].Score >= 0
               /\ \A j \in 1..Len(result.results[i].Matches) :
                      result.results[i].Matches[j].Score >= 0

\* the active documents of a snapshot, in their order
ActiveOnly(docs) == SelectSeq(docs, LAMBDA d : d.IsActive)

\* C28: inactive documents have no influence on a search: the engine built
\* from the snapshot without its inactive documents can return the same
\* documents in the same order with the same scores.
C28_InactiveDocumentsWithoutInfluence ==
    (Searched /\ ~result.panic) =>
        \E r \in Search(NewSearchEngine(ActiveOnly(se.Documents)), query, limit) :
            /\ ResultOrder(r.results) = ResultOrder(result.results)
            /\ ResultScores(r.results) = ResultScores(result.results)

\* the number of postings of term t for document id
PostingsFor(eng, t, id) ==
    Cardinality({i \in 1..Len(findMatches(eng, t)) :
                    findMatches(eng, t)[i].DocumentID = id})

\* the number of Match entries of a returned document for term t
MatchesFor(r, t) ==
    Cardinality({j \in 1..Len(r.Matches) : r.Matches[j].Text = t})

\* C23: a query term that is a key of the index is matched by its own
\* postings only: every returned document has one Match per posting of the
\* term for it (times the occurrences of the term in the query), and no
\* posting of another term within edit distance 2 adds a Match or a document.
C23_FuzzyOnlyWithoutExactPostings ==
    (Searched /\ ~result.panic) =>
        /\ \A k \in 1..Len(QueryTerms) :
               QueryTerms[k] \in DOMAIN se.Index =>
                   /\ MatchesOf(se, QueryTerms[k]) = {se.Index[QueryTerms[k]]}
                   /\ \A i \in 1..Len(result.results) :
                          MatchesFor(result.results[i], QueryTerms[k]) =
                              PostingsFor(se, QueryTerms[k],
                                          result.results[i].Document.ID)
                                  * Cardinality({n \in 1..Len(QueryTerms) :
                                                    QueryTerms[n] = QueryTerms[k]})
        /\ (\A k \in 1..Len(QueryTerms) : QueryTerms[k] \in DOMAIN se.Index)
               => ResultIDs(result.results) \subseteq
                      UNION {DocsWith(se, QueryTerms[k]) : k \in 1..Len(QueryTerms)}

\* the query term has postings, another index term is within distance 2 of
\* it, and a document that holds only the other term is not returned
C23_Witness ==
    /\ Len(QueryTerms) = 1
    /\ SearchedFor(QueryTerms[1])
    /\ QueryTerms[1] \in DOMAIN se.Index
    /\ Len(result.results) > 0
    /\ Len(result.results) < EffectiveLimit
    /\ \E t \in Within(se, QueryTerms[1], 2) \ {QueryTerms[1]} :
           DocsWith(se, t) \ ResultIDs(result.results) # {}

\* C24: after any sequence of UpdateDocuments and BuildIndex calls the engine
\* is the engine a new one builds from its document list alone: no term and
\* no posting of an earlier snapshot is left. (Stated of the engine as every
\* operation leaves it; a call of Search in progress holds the same engine.)
C24_IndexOfLastSnapshotOnly ==
    ~Searched =>
        /\ se.Index = IndexDocuments(EmptyIndex, se.Documents, 1)
        /\ \A tp \in Postings(se) :
               \E d \in ActiveDocs(se) :
                   /\ d.ID = tp[2].DocumentID
                   /\ \E w \in Range(tokenize(FieldText(d, tp[2].Field))) :
                          normalizeWord(w) = tp[1]

\* the engine holds a snapshot while the table holds rows from which an
\* engine was built before: the terms of the rows are gone from the index
C24_Witness ==
    /\ ~Searched
    /\ db # << >>
    /\ se.Documents \in Snapshots
    /\ DOMAIN se.Index # {}
    /\ \A k \in 1..Len(db) :
           \A w \in Range(tokenize(db[k].Category)) :
               normalizeWord(w) \notin DOMAIN se.Index

RECURSIVE SumScores(_, _)
SumScores(matches, k) ==
    IF k > Len(matches) THEN 0
    ELSE matches[k].Score + SumScores(matches, k + 1)

\* the weights of the fields, in tenths
WeightOf(field) ==
    CASE field = "name" -> 30
      [] field = "category" -> 25
      [] field = "description" -> 20
      [] field = "tags" -> 20
      [] field = "content" -> 10

\* the postings for document id under the terms of the set terms
PostingsAmong(eng, terms, id) ==
    UNION { {<<c, i>> : i \in {n \in 1..Len(findMatches(eng, c)) :
                                   findMatches(eng, c)[n].DocumentID = id}} :
            c \in terms }

\* C25: the Score of a returned document is the sum of the scores of its
\* Matches; it has one Match for every occurrence of a term in the query and
\* every posting of the document that matches the term; the score of a Match
\* is the frequency of its posting times the idf of the query term (the
\* value of calculateIDF) times the weight of the posting's field.
C25_ScoreIsSumOfMatches ==
    (Searched /\ ~result.panic) =>
        \A i \in 1..Len(result.results) :
            LET r == result.results[i] IN
            /\ r.Score = SumScores(r.Matches, 1)
            /\ \A j \in 1..Len(r.Matches) :
                   r.Matches[j].Text \in Range(QueryTerms)
            /\ \A k \in 1..Len(QueryTerms) :
                   MatchesFor(r, QueryTerms[k]) =
                       Cardinality(PostingsAmong(se, Candidates(se, QueryTerms[k]),
                                                 r.Document.ID))
                           * Cardinality({n \in 1..Len(QueryTerms) :
                                             QueryTerms[n] = QueryTerms[k]})
            /\ \A j \in 1..Len(r.Matches) :
                   \E ci \in PostingsAmong(se, Candidates(se, r.Matches[j].Text),
                                            r.Document.ID) :
                       LET p == se.Index[ci[1]][ci[2]] IN
                       /\ r.Matches[j].Field = p.Field
                       /\ r.Matches[j].Score =
                              p.Frequency * calculateIDF(se, r.Matches[j].Text)
                                          * WeightOf(p.Field)

\* a returned document with several Matches, one of them for a posting of
\* frequency 2, and a score that is not 0
C25_Witness ==
    /\ Searched
    /\ ~result.panic
    /\ \E i \in 1..Len(result.results) :
           /\ Len(result.results[i].Matches) >= 3
           /\ result.results[i].Score # 0
           /\ \E tp \in Postings(se) :
                  /\ tp[1] \in Range(QueryTerms)
                  /\ tp[2].DocumentID = result.results[i].Document.ID
                  /\ tp[2].Frequency = 2

FieldNames == {"name", "description", "content", "category", "tags"}

\* C22: a raw word of the query that tokenize keeps and that is a token of
\* a field of an active document is looked up under the term the document's
\* token was indexed under: the term has a posting for that document and
\* field, the fuzzy fallback is not used, and the document is returned, with
\* a Match for the field, when the limit does not cut the list.
C22_QueryNormalizedAsDocuments ==
    (Searched /\ ~result.panic) =>
        \A k \in 1..Len(tokenize(query)) :
            LET w == tokenize(query)[k]
                t == normalizeWord(w)
            IN  \A d \in ActiveDocs(se) : \A f \in FieldNames :
                    w \in Range(tokenize(FieldText(d, f))) =>
                        /\ \E p \in Range(findMatches(se, t)) :
                               p.DocumentID = d.ID /\ p.Field = f
                        /\ Candidates(se, t) = {t}
                        /\ (\A acc \in ScoreWords(se, tokenize(query), 1, << >>) :
                                Cardinality(Scored(se, acc)) <= EffectiveLimit)
                               => \E i \in 1..Len(result.results) :
                                      /\ result.results[i].Document = d
                                      /\ \E j \in 1..Len(result.results[i].Matches) :
                                             /\ result.results[i].Matches[j].Text = t
                                             /\ result.results[i].Matches[j].Field = f

\* the query is a raw word that normalizeWord changes, a document holds the
\* raw word, and the document is returned
C22_Witness ==
    /\ Searched
    /\ ~result.panic
    /\ Len(tokenize(query)) = 1
    /\ normalizeWord(tokenize(query)[1]) # tokenize(query)[1]
    /\ \E i \in 1..Len(result.results) :
           tokenize(query)[1] \in
               Range(tokenize(result.results[i].Document.Name))

\* a search handler has answered a request with a search
Handled ==
    /\ call.fn \in {"handleOnboardingWithLLM", "handlePolicySearch",
                    "searchDocuments"}
    /\ ret.done
    /\ call.fn = "searchDocuments" => ret.value.status = 200

\* the documents of the response
ResponseDocuments ==
    IF call.fn = "searchDocuments" THEN ret.value.documents
    ELSE ret.value.PolicyFiles

\* row k of the table holds a token of the query in its name
NamedInQuery(k) ==
    \E w \in Range(tokenize(query)) : w \in Range(tokenize(db[k].Name))

\* C26: a search handler answers from the table as it is at the request:
\* every document of the response is a row of the table as it is now, and an
\* active one, so a document deleted or deactivated before the request is not
\* returned; the engine searched holds the rows of the table; and an active
\* row with a word of the query in its name, a created one too, is found.
C26_ResultsReflectStore ==
    Handled =>
        /\ se.Documents = db
        /\ \A i \in 1..Len(ResponseDocuments) :
               /\ ResponseDocuments[i] \in Range(db)
               /\ ResponseDocuments[i].IsActive
        /\ \A k \in 1..Len(db) :
               (db[k].IsActive /\ NamedInQuery(k) /\ Len(db) <= limit)
                   => db[k] \in Range(DocumentsOf(result.results))

\* the first row is deleted and the second, created after it, is not; both
\* hold the word of the query in their name; the response has the second only
C26_Witness ==
    /\ Handled
    /\ Len(db) = 2
    /\ ~db[1].IsActive
    /\ NamedInQuery(1)
    /\ NamedInQuery(2)
    /\ ResponseDocuments = <<db[2]>>

\* C29: the "matches" of the response of searchDocuments go with its
\* "documents": as many entries, and the i-th match is the DocumentMatch of
\* the i-th document, so no match is reported for a document the filters
\* removed.
C29_MatchesAlignedWithDocuments ==
    (call.fn = "searchDocuments" /\ ret.done /\ ret.value.status = 200) =>
        /\ Len(ret.value.matches) = Len(ret.value.documents)
        /\ \A i \in 1..Len(ret.value.matches) :
               ret.value.matches[i].Document = ret.value.documents[i]

\* C21: a call of Search that runs while a rebuild of the engine (BuildIndex
\* or UpdateDocuments) is under way reads either the engine the rebuild
\* started from, old document list and old index, or the engine the rebuild
\* ends with, new document list and the complete new index.
C21_SearchSeesOldOrNewEngine ==
    (Searched /\ build # NoBuild) =>
        se \in {build.old, UpdateDocuments(build.old, build.docs)}

====
